---- MODULE Spec2Model ----
(***************************************************************************)
(* Model of PVDriver (src/driver/driver.py): the host-side bridge that     *)
(* talks to the Arduino over a serial line.                                *)
(*                                                                         *)
(* Python strings are sequences of one-character strings, so that          *)
(* endswith, `in', split, str, float and int are computed as the code      *)
(* computes them.  An optional argument is <<>> for None and <<v>> for a   *)
(* provided value v.  A line is modelled without its end-of-line           *)
(* characters: the substring test does not see them and float() and int()  *)
(* strip surrounding white space.                                          *)
(***************************************************************************)
EXTENDS Integers, Sequences, FiniteSets, TLC

VARIABLES pc, cur, wr, rd, out, req, written, inq, devPos, nCalls, nNoise, closes

vars == <<pc, cur, wr, rd, out, req, written, inq, devPos, nCalls, nNoise, closes>>

(* ------------------------------ bounds --------------------------------- *)

\* total number of operations started on the driver
MaxCalls == 2
\* number of unsolicited lines the serial line delivers
MaxNoise == 1
\* number of reads recorded in the history rd of one call
MaxReads == 3
\* number of calls of close_connexion
MaxCloses == 2

\* the threads that hold a reference to the same PVDriver object
Callers == {"c1", "c2"}

(* ------------------------------ strings -------------------------------- *)

SEMI == <<";">>
POS_PREFIX == <<"P", "O", "S", ":">>
STATE_PREFIX == <<"S", "T", "A", "T", "E", ":">>
CMD_RP == <<"R", "P", ";">>
CMD_RS == <<"R", "S", ";">>
OP_GT == <<"G", "T", ",">>
OP_GTR == <<"G", "T", "R", ",">>
OP_GR == <<"G", "R", ",">>
OP_GRR == <<"G", "R", "R", ",">>

DigitChars == <<"0", "1", "2", "3", "4", "5", "6", "7", "8", "9">>

\* str.endswith
EndsWith(s, suf) ==
    /\ Len(s) >= Len(suf)
    /\ SubSeq(s, Len(s) - Len(suf) + 1, Len(s)) = suf

\* pat in s
Contains(pat, s) ==
    \E i \in 1..(Len(s) - Len(pat) + 1) : SubSeq(s, i, i + Len(pat) - 1) = pat

RECURSIVE NatStr(_)
NatStr(n) ==
    IF n < 10 THEN <<DigitChars[n + 1]>>
    ELSE NatStr(n \div 10) \o <<DigitChars[(n % 10) + 1]>>

\* str(v) of an int
Str(v) == IF v < 0 THEN <<"-">> \o NatStr(0 - v) ELSE NatStr(v)

\* truth value of an optional angle: None and 0 are both false
Truthy(x) == x # <<>> /\ x[1] # 0

\* truth value of an optional string: None and "" are both false
TruthyStr(p) == p # <<>> /\ p[1] # <<>>

(* --------------------------- set_position ------------------------------ *)

\* the command of one axis (lines 78-83, 89-92 and 97-100)
TiltCmd_modeSwapped(v, relative) ==
    (IF relative THEN OP_GT ELSE OP_GTR) \o Str(v) \o SEMI

TiltCmd(v, relative) ==
    (IF relative THEN OP_GTR ELSE OP_GT) \o Str(v) \o SEMI

RotCmd(v, relative) ==
    (IF relative THEN OP_GRR ELSE OP_GR) \o Str(v) \o SEMI

\* the else branch of lines 103-105 sends nothing
NoAngleCmds_sendsNone == <<OP_GT \o <<"N", "o", "n", "e">> \o SEMI>>

NoAngleCmds == <<>>

\* the commands set_position builds, in the order it sends them
SetPositionCmds(tilt, rot, relative) ==
    IF Truthy(tilt) /\ Truthy(rot)
    THEN <<TiltCmd(tilt[1], relative), RotCmd(rot[1], relative)>>
    ELSE IF Truthy(tilt) THEN <<TiltCmd(tilt[1], relative)>>
    ELSE IF Truthy(rot) THEN <<RotCmd(rot[1], relative)>>
    ELSE NoAngleCmds

(* -------------------------- _send_command ------------------------------ *)

\* line 116: the command is sent only when it ends with ';'
CommandAccepted_always(cmd) == TRUE

CommandAccepted(cmd) == EndsWith(cmd, SEMI)

\* line 121: `not res_pattern'
PatternMissing_noneOnly(pat) == pat = <<>>

PatternMissing(pat) == ~TruthyStr(pat)

\* line 131: the loop ends when `res_pattern in res'
Matches_anyLine(pat, line) == line # <<>>

Matches_orExpired(pat, line) == line = <<>> \/ Contains(pat[1], line)

Matches(pat, line) == Contains(pat[1], line)

\* what _send_command does before its first read:
\*   "MalformedCommand"        raised at line 117, nothing written
\*   "MissingResponsePattern"  raised at line 122, after the write of line 119
\*   "read"                    enters the read loop of lines 129-133
\*   "returned"                falls off the end (fb_required false)
SendStatus(cmd, fb, pat) ==
    IF ~CommandAccepted(cmd) THEN "MalformedCommand"
    ELSE IF fb THEN
        IF PatternMissing(pat) THEN "MissingResponsePattern" ELSE "read"
    ELSE "returned"

\* the frames _send_command hands to self._arduino.write
SendWrites_twice(cmd) == IF CommandAccepted(cmd) THEN <<cmd, cmd>> ELSE <<>>

SendWrites_unchecked(cmd) == <<cmd>>

SendWrites(cmd) == IF CommandAccepted(cmd) THEN <<cmd>> ELSE <<>>

\* the arguments of the _send_command calls of the three public operations
GetPositionRequest == [cmd |-> CMD_RP, fb |-> TRUE, pat |-> <<POS_PREFIX>>]
GetStateRequest == [cmd |-> CMD_RS, fb |-> TRUE, pat |-> <<STATE_PREFIX>>]
SetPositionRequest_acked(cmd) == [cmd |-> cmd, fb |-> TRUE, pat |-> <<SEMI>>]

SetPositionRequest(cmd) == [cmd |-> cmd, fb |-> FALSE, pat |-> <<>>]

(* ------------------------------ decoding ------------------------------- *)

IsDigit(ch) == \E i \in 1..10 : DigitChars[i] = ch
DigitVal(ch) == (CHOOSE i \in 1..10 : DigitChars[i] = ch) - 1
AllDigits(s) == \A i \in 1..Len(s) : IsDigit(s[i])

RECURSIVE NatVal(_)
NatVal(s) ==
    IF s = <<>> THEN 0
    ELSE 10 * NatVal(SubSeq(s, 1, Len(s) - 1)) + DigitVal(s[Len(s)])

\* str.split(sep) for a one-character separator
RECURSIVE Split(_, _)
Split(s, sep) ==
    IF \A i \in 1..Len(s) : s[i] # sep THEN <<s>>
    ELSE LET i == CHOOSE k \in 1..Len(s) :
                      s[k] = sep /\ \A j \in 1..(k - 1) : s[j] # sep
         IN <<SubSeq(s, 1, i - 1)>> \o Split(SubSeq(s, i + 1, Len(s)), sep)

Unsigned(s) ==
    IF s # <<>> /\ (s[1] = "-" \/ s[1] = "+") THEN Tail(s) ELSE s
Sign(s) == IF s # <<>> /\ s[1] = "-" THEN 0 - 1 ELSE 1

\* int(s) succeeds: an optional sign and one or more digits
IsIntLit(s) == Unsigned(s) # <<>> /\ AllDigits(Unsigned(s))
IntVal(s) == Sign(s) * NatVal(Unsigned(s))

\* float(s) succeeds: an optional sign, digits and at most one point, at least
\* one digit (the decimal literals; exponents, inf and nan are not produced by
\* the lines of this model)
IsFloatLit(s) ==
    LET u == Unsigned(s)
        p == Split(u, ".")
    IN /\ Len(p) <= 2
       /\ \A i \in 1..Len(p) : AllDigits(p[i])
       /\ \E i \in 1..Len(p) : p[i] # <<>>

\* the value of float(s) in hundredths of a degree
FloatVal(s) ==
    LET p == Split(Unsigned(s), ".")
        frac == IF Len(p) = 2 THEN SubSeq(p[2] \o <<"0", "0">>, 1, 2) ELSE <<"0", "0">>
    IN Sign(s) * (100 * NatVal(p[1]) + NatVal(frac))

\* lines 48-50 of get_position: the outcome for the line res
DecodePosition(res) ==
    LET parts == Split(res, ":") IN
    IF Len(parts) < 2 THEN [err |-> "IndexError", pos |-> <<>>]
    ELSE LET fields == Split(parts[2], ",") IN
         IF ~IsFloatLit(fields[1]) THEN [err |-> "ValueError", pos |-> <<>>]
         ELSE IF Len(fields) < 2 THEN [err |-> "IndexError", pos |-> <<>>]
         ELSE IF ~IsFloatLit(fields[2]) THEN [err |-> "ValueError", pos |-> <<>>]
         ELSE [err |-> "", pos |-> <<FloatVal(fields[1]), FloatVal(fields[2])>>]

\* the class constants of lines 24-26
IDLE == 0
MOVING == 1
ERROR == -1

\* a decoder that knows the three codes only and rejects every other one
DecodeState_knownOnly(res) ==
    LET parts == Split(res, ":") IN
    IF Len(parts) < 2 THEN [err |-> "IndexError", state |-> ""]
    ELSE IF ~IsIntLit(parts[2]) THEN [err |-> "ValueError", state |-> ""]
    ELSE IF IntVal(parts[2]) = IDLE THEN [err |-> "", state |-> "IDLE"]
    ELSE IF IntVal(parts[2]) = MOVING THEN [err |-> "", state |-> "MOVING"]
    ELSE IF IntVal(parts[2]) = ERROR THEN [err |-> "", state |-> "ERROR"]
    ELSE [err |-> "ValueError", state |-> ""]

\* lines 151-157 of _get_state: the outcome for the line res
DecodeState(res) ==
    LET parts == Split(res, ":") IN
    IF Len(parts) < 2 THEN [err |-> "IndexError", state |-> ""]
    ELSE IF ~IsIntLit(parts[2]) THEN [err |-> "ValueError", state |-> ""]
    ELSE IF IntVal(parts[2]) = IDLE THEN [err |-> "", state |-> "IDLE"]
    ELSE IF IntVal(parts[2]) = MOVING THEN [err |-> "", state |-> "MOVING"]
    ELSE [err |-> "", state |-> "ERROR"]

(* --------------------------- the serial line --------------------------- *)

\* the lines the firmware answers RP; with
DevPosLines ==
    { POS_PREFIX \o <<"1", "2", ".", "5", ",", "-", "3", ".", "2", "5", ";">>,
      POS_PREFIX \o <<"1", ",", "2">>,
      POS_PREFIX \o <<"1", ",", "2", ",", "3">> }

\* the lines the firmware answers RS; with
DevStateLines ==
    { STATE_PREFIX \o <<"0", ";">>,
      STATE_PREFIX \o <<"0">>,
      STATE_PREFIX \o <<"1">>,
      STATE_PREFIX \o <<"-", "1">>,
      STATE_PREFIX \o <<"7">> }

\* unsolicited lines that contain no response prefix
PlainNoise == { <<"E", "R", "R">> }

\* unsolicited lines in which a response prefix occurs after other characters
PrefixNoise == { <<"#">> \o POS_PREFIX \o <<"1", ",", "2">> }

\* what readline() returns when its one-second wait expires (line 29)
TimeoutLine == [text |-> <<>>, for |-> 0]

(* -------------------------------- state -------------------------------- *)
\* pc[c]      where caller c is: "idle", "sp2" (between the two sends of
\*            lines 84-85) or "read" (in the loop of lines 129-133)
\* cur[c]     the operation c runs or ran last, with its arguments
\* wr[c]      the frames that operation has written, in order
\* rd[c]      the lines that operation has read, in order
\* out[c]     how that operation ended and what it returned
\* req[c]     the index in written of the frame of c's blocking request
\* written    every frame handed to self._arduino.write, in order
\* inq        the lines pending on the serial line; `for' is the index in
\*            written of the frame a line answers, 0 for an unsolicited line
\* devPos     the number of frames the firmware has processed
\* closes     the number of calls of self._arduino.close()

NoCall ==
    [op |-> "none", tilt |-> <<>>, rot |-> <<>>, relative |-> FALSE,
     cmd |-> <<>>, fb |-> FALSE, pat |-> <<>>]

Running == [status |-> "running", err |-> "", res |-> <<>>, pos |-> <<>>, state |-> ""]
Returned == [Running EXCEPT !.status = "returned"]
Raised(e) == [Running EXCEPT !.status = "raised", !.err = e]

Init ==
    /\ pc = [c \in Callers |-> "idle"]
    /\ cur = [c \in Callers |-> NoCall]
    /\ wr = [c \in Callers |-> <<>>]
    /\ rd = [c \in Callers |-> <<>>]
    /\ out = [c \in Callers |-> [Running EXCEPT !.status = "none"]]
    /\ req = [c \in Callers |-> 0]
    /\ written = <<>>
    /\ inq = <<>>
    /\ devPos = 0
    /\ nCalls = 0
    /\ nNoise = 0
    /\ closes = 0

\* the inputs of the operations
TiltArgs == {<<>>, <<0>>, <<5>>}
RotArgs == {<<>>, <<0>>, <<0 - 2>>}
RawCmds == {CMD_RP, <<"R", "P">>, <<>>}
Patterns == {<<>>, <<<<>>>>, <<POS_PREFIX>>}

\* caller c starts an operation (the callers close the connexion last, as
\* lines 176-187 do: no operation is started on a closed port)
Begin(c, call) ==
    /\ pc[c] = "idle"
    /\ closes = 0
    /\ nCalls < MaxCalls
    /\ nCalls' = nCalls + 1
    /\ cur' = [cur EXCEPT ![c] = call]

\* a dispatch that checks all its arguments before it writes
Dispatch_validateFirst(c, r) ==
    LET st == SendStatus(r.cmd, r.fb, r.pat)
        frames == IF st = "MissingResponsePattern" THEN <<>> ELSE SendWrites(r.cmd)
    IN
    /\ written' = written \o frames
    /\ wr' = [wr EXCEPT ![c] = frames]
    /\ rd' = [rd EXCEPT ![c] = <<>>]
    /\ req' = [req EXCEPT ![c] = IF st = "read" THEN Len(written) + 1 ELSE 0]
    /\ out' = [out EXCEPT ![c] =
                  IF st = "read" THEN Running
                  ELSE IF st = "returned" THEN Returned
                  ELSE Raised(st)]
    /\ UNCHANGED <<inq, devPos, nNoise, closes>>

\* one call of _send_command up to its first read, made by caller c as the
\* first transport access of its operation
Dispatch(c, r) ==
    LET st == SendStatus(r.cmd, r.fb, r.pat) IN
    /\ written' = written \o SendWrites(r.cmd)
    /\ wr' = [wr EXCEPT ![c] = SendWrites(r.cmd)]
    /\ rd' = [rd EXCEPT ![c] = <<>>]
    /\ req' = [req EXCEPT ![c] = IF st = "read" THEN Len(written) + 1 ELSE 0]
    /\ out' = [out EXCEPT ![c] =
                  IF st = "read" THEN Running
                  ELSE IF st = "returned" THEN Returned
                  ELSE Raised(st)]
    /\ UNCHANGED <<inq, devPos, nNoise, closes>>

get_position(c) ==
    /\ Begin(c, [NoCall EXCEPT !.op = "get_position",
                               !.cmd = GetPositionRequest.cmd,
                               !.fb = GetPositionRequest.fb,
                               !.pat = GetPositionRequest.pat])
    /\ Dispatch(c, GetPositionRequest)
    /\ pc' = [pc EXCEPT ![c] =
                 IF SendStatus(GetPositionRequest.cmd, GetPositionRequest.fb,
                               GetPositionRequest.pat) = "read"
                 THEN "read" ELSE "idle"]

get_state(c) ==
    /\ Begin(c, [NoCall EXCEPT !.op = "_get_state",
                               !.cmd = GetStateRequest.cmd,
                               !.fb = GetStateRequest.fb,
                               !.pat = GetStateRequest.pat])
    /\ Dispatch(c, GetStateRequest)
    /\ pc' = [pc EXCEPT ![c] =
                 IF SendStatus(GetStateRequest.cmd, GetStateRequest.fb,
                               GetStateRequest.pat) = "read"
                 THEN "read" ELSE "idle"]

\* a direct call of _send_command
send_command(c, cmd, fb, pat) ==
    /\ Begin(c, [NoCall EXCEPT !.op = "_send_command",
                               !.cmd = cmd, !.fb = fb, !.pat = pat])
    /\ Dispatch(c, [cmd |-> cmd, fb |-> fb, pat |-> pat])
    /\ pc' = [pc EXCEPT ![c] =
                 IF SendStatus(cmd, fb, pat) = "read" THEN "read" ELSE "idle"]

\* set_position up to and including its first _send_command
set_position(c, tilt, rot, relative) ==
    LET cmds == SetPositionCmds(tilt, rot, relative) IN
    /\ Begin(c, [NoCall EXCEPT !.op = "set_position", !.tilt = tilt,
                               !.rot = rot, !.relative = relative])
    /\ IF cmds = <<>>
       THEN /\ wr' = [wr EXCEPT ![c] = <<>>]
            /\ rd' = [rd EXCEPT ![c] = <<>>]
            /\ req' = [req EXCEPT ![c] = 0]
            /\ out' = [out EXCEPT ![c] = Returned]
            /\ pc' = pc
            /\ UNCHANGED <<written, inq, devPos, nNoise, closes>>
       ELSE LET r == SetPositionRequest(cmds[1])
                st == SendStatus(r.cmd, r.fb, r.pat)
            IN /\ Dispatch(c, r)
               /\ pc' = [pc EXCEPT ![c] =
                            IF st = "read" THEN "read"
                            ELSE IF st = "returned" /\ Len(cmds) = 2 THEN "sp2"
                            ELSE "idle"]

\* the second _send_command of set_position (line 85)
set_position_second(c) ==
    LET cmds == SetPositionCmds(cur[c].tilt, cur[c].rot, cur[c].relative)
        r == SetPositionRequest(cmds[2])
        st == SendStatus(r.cmd, r.fb, r.pat)
    IN /\ pc[c] = "sp2"
       /\ written' = written \o SendWrites(r.cmd)
       /\ wr' = [wr EXCEPT ![c] = @ \o SendWrites(r.cmd)]
       /\ req' = [req EXCEPT ![c] = IF st = "read" THEN Len(written) + 1 ELSE 0]
       /\ out' = [out EXCEPT ![c] =
                     IF st = "read" THEN Running
                     ELSE IF st = "returned" THEN Returned
                     ELSE Raised(st)]
       /\ pc' = [pc EXCEPT ![c] = IF st = "read" THEN "read" ELSE "idle"]
       /\ UNCHANGED <<cur, rd, inq, devPos, nCalls, nNoise, closes>>

\* how the operation op ends once _send_command has returned the line res
Finish(op, res) ==
    IF op = "get_position" THEN
        LET d == DecodePosition(res) IN
        IF d.err = "" THEN [Returned EXCEPT !.res = res, !.pos = d.pos]
        ELSE [Raised(d.err) EXCEPT !.res = res]
    ELSE IF op = "_get_state" THEN
        LET d == DecodeState(res) IN
        IF d.err = "" THEN [Returned EXCEPT !.res = res, !.state = d.state]
        ELSE [Raised(d.err) EXCEPT !.res = res]
    ELSE [Returned EXCEPT !.res = res]

\* one readline() of the loop of lines 130-133, and what follows the loop
\* when the line ends it (the history rd stops recording expired waits once it
\* holds MaxReads lines)
read_line(c) ==
    LET line == IF inq = <<>> THEN TimeoutLine ELSE Head(inq) IN
    /\ pc[c] = "read"
    /\ inq' = IF inq = <<>> THEN inq ELSE Tail(inq)
    /\ rd' = [rd EXCEPT ![c] =
                 IF inq = <<>> /\ Len(@) >= MaxReads THEN @ ELSE Append(@, line)]
    /\ IF Matches(cur[c].pat, line.text)
       THEN /\ pc' = [pc EXCEPT ![c] = "idle"]
            /\ out' = [out EXCEPT ![c] = Finish(cur[c].op, line.text)]
       ELSE UNCHANGED <<pc, out>>
    /\ UNCHANGED <<cur, wr, req, written, devPos, nCalls, nNoise, closes>>

\* the firmware processes the next frame and answers a request
device_answer ==
    /\ devPos < Len(written)
    /\ devPos' = devPos + 1
    /\ LET f == written[devPos + 1] IN
       IF f = CMD_RP
       THEN \E l \in DevPosLines : inq' = Append(inq, [text |-> l, for |-> devPos + 1])
       ELSE IF f = CMD_RS
       THEN \E l \in DevStateLines : inq' = Append(inq, [text |-> l, for |-> devPos + 1])
       ELSE inq' = inq
    /\ UNCHANGED <<pc, cur, wr, rd, out, req, written, nCalls, nNoise, closes>>

\* the serial line delivers an unsolicited line
noise(l) ==
    /\ nNoise < MaxNoise
    /\ nNoise' = nNoise + 1
    /\ inq' = Append(inq, [text |-> l, for |-> 0])
    /\ UNCHANGED <<pc, cur, wr, rd, out, req, written, devPos, nCalls, closes>>

\* close_connexion (lines 31-32): one call of self._arduino.close(), whether
\* or not the port is still open
close_connexion(c) ==
    /\ pc[c] = "idle"
    /\ closes < MaxCloses
    /\ closes' = closes + 1
    /\ UNCHANGED <<pc, cur, wr, rd, out, req, written, inq, devPos, nCalls, nNoise>>

\* the optional gains of _set_controller_parameters
GainArgs == {<<>>, <<1>>}

\* _get_controller_parameters (lines 159-163): the body is `pass'
get_controller_parameters(c) ==
    /\ Begin(c, [NoCall EXCEPT !.op = "_get_controller_parameters"])
    /\ wr' = [wr EXCEPT ![c] = <<>>]
    /\ rd' = [rd EXCEPT ![c] = <<>>]
    /\ req' = [req EXCEPT ![c] = 0]
    /\ out' = [out EXCEPT ![c] = Returned]
    /\ UNCHANGED <<pc, written, inq, devPos, nNoise, closes>>

\* _set_controller_parameters (lines 165-169): the body is `pass', the gains
\* are not used
set_controller_parameters(c, P, I, D) ==
    /\ Begin(c, [NoCall EXCEPT !.op = "_set_controller_parameters"])
    /\ wr' = [wr EXCEPT ![c] = <<>>]
    /\ rd' = [rd EXCEPT ![c] = <<>>]
    /\ req' = [req EXCEPT ![c] = 0]
    /\ out' = [out EXCEPT ![c] = Returned]
    /\ UNCHANGED <<pc, written, inq, devPos, nNoise, closes>>

\* the operations of caller c: the public ones, and the direct dispatch
Public(c) ==
    \/ get_position(c)
    \/ get_state(c)
    \/ \E tilt \in TiltArgs, rot \in RotArgs, relative \in BOOLEAN :
           set_position(c, tilt, rot, relative)
    \/ set_position_second(c)
    \/ read_line(c)

Direct(c) ==
    \E cmd \in RawCmds, fb \in BOOLEAN, pat \in Patterns :
        send_command(c, cmd, fb, pat)

\* the controller-gain stubs
Gains(c) ==
    \/ get_controller_parameters(c)
    \/ \E P \in GainArgs, I \in GainArgs, D \in GainArgs :
           set_controller_parameters(c, P, I, D)

\* one thread of control per driver object (the use the driver is written
\* for, lines 171-188), any unsolicited line
Next ==
    \/ Public("c1")
    \/ Direct("c1")
    \/ device_answer
    \/ \E l \in PlainNoise \cup PrefixNoise : noise(l)

Spec == Init /\ [][Next]_vars

\* the readline() call of read_line alone: what one pass of the loop does to
\* the serial line and to the history. A step of Next is such a step exactly
\* when it is a step of read_line, and both are enabled in the same states.
readline(c) ==
    LET line == IF inq = <<>> THEN TimeoutLine ELSE Head(inq) IN
    /\ pc[c] = "read"
    /\ inq' = IF inq = <<>> THEN inq ELSE Tail(inq)
    /\ rd' = [rd EXCEPT ![c] =
                 IF inq = <<>> /\ Len(@) >= MaxReads THEN @ ELSE Append(@, line)]
    /\ UNCHANGED <<cur, wr, req, written, devPos, nCalls, nNoise, closes>>

\* the same, with the loop of lines 130-133 running on (a waiting caller goes
\* on calling readline) and the firmware answering every frame it has received
SpecLive ==
    /\ Init
    /\ [][Next]_vars
    /\ WF_<<inq, rd>>(readline("c1"))
    /\ WF_vars(device_answer)

\* one thread of control, every method of the class
NextFull ==
    \/ Public("c1")
    \/ Direct("c1")
    \/ Gains("c1")
    \/ close_connexion("c1")
    \/ device_answer
    \/ \E l \in PlainNoise \cup PrefixNoise : noise(l)

SpecFull == Init /\ [][NextFull]_vars

\* two threads share the driver object
NextConc ==
    \/ \E c \in Callers : Public(c)
    \/ \E c \in Callers : Direct(c)
    \/ device_answer
    \/ \E l \in PlainNoise \cup PrefixNoise : noise(l)

SpecConc == Init /\ [][NextConc]_vars

\* one thread, the public operations only, and a serial line on which every
\* line that contains a response prefix is the answer to a request
NextSeq ==
    \/ Public("c1")
    \/ device_answer
    \/ \E l \in PlainNoise : noise(l)

SpecSeq == Init /\ [][NextSeq]_vars

(* ------------------------------ properties ----------------------------- *)

\* the wire grammar of SetAxis: the operation code of an axis and a mode,
\* the value in decimal, the terminator
WireOp(axis, relative) ==
    IF axis = "tilt" THEN (IF relative THEN <<"G", "T", "R">> ELSE <<"G", "T">>)
    ELSE (IF relative THEN <<"G", "R", "R">> ELSE <<"G", "R">>)
WireFrame(axis, v, relative) == WireOp(axis, relative) \o <<",">> \o Str(v) \o <<";">>

Provided(x) == x # <<>>
Last(s) == s[Len(s)]
SetPositionDone(c) == cur[c].op = "set_position" /\ pc[c] = "idle"

\* the dispatches that wait for a response: fb_required with a pattern, on a
\* command that was sent
Blocking(c) ==
    /\ cur[c].op # "none"
    /\ cur[c].fb
    /\ cur[c].pat # <<>>
    /\ cur[c].pat[1] # <<>>
    /\ EndsWith(cur[c].cmd, <<";">>)

\* C1: every frame that has been written to the transport ends with ';'.
C1_FramesEndWithSemicolon ==
    \A i \in 1..Len(written) :
        Len(written[i]) >= 1 /\ written[i][Len(written[i])] = ";"

\* C1 witness: frames have been written and a direct _send_command of a
\* string without ';' has been rejected.
C1_Witness ==
    /\ Len(written) >= 2
    /\ cur["c1"].op = "_send_command"
    /\ cur["c1"].cmd = <<"R", "P">>
    /\ out["c1"].err = "MalformedCommand"

\* C2 (as claimed): a completed set_position has written one frame per
\* provided axis: the tilt frame then the rotation frame when both are
\* provided, the frame of the one provided axis otherwise.
C2_OneWritePerProvidedAxis ==
    \A c \in Callers : SetPositionDone(c) =>
        LET t == cur[c].tilt
            r == cur[c].rot
            rel == cur[c].relative
        IN /\ (Provided(t) /\ Provided(r)) =>
                  wr[c] = <<WireFrame("tilt", t[1], rel), WireFrame("rot", r[1], rel)>>
           /\ (Provided(t) /\ ~Provided(r)) => wr[c] = <<WireFrame("tilt", t[1], rel)>>
           /\ (~Provided(t) /\ Provided(r)) => wr[c] = <<WireFrame("rot", r[1], rel)>>

\* C3 (as claimed): a completed set_position that was given the angle 0 for
\* an axis has written the frame of that axis with the value 0.
C3_ZeroIsATarget ==
    \A c \in Callers : SetPositionDone(c) =>
        /\ cur[c].tilt = <<0>> =>
               \E i \in 1..Len(wr[c]) : wr[c][i] = WireFrame("tilt", 0, cur[c].relative)
        /\ cur[c].rot = <<0>> =>
               \E i \in 1..Len(wr[c]) : wr[c][i] = WireFrame("rot", 0, cur[c].relative)

\* C4: set_position with neither tilt nor rot writes nothing, reads nothing
\* and returns without an error.
C4_NoAngleNoIO ==
    \A c \in Callers :
        (cur[c].op = "set_position" /\ cur[c].tilt = <<>> /\ cur[c].rot = <<>>) =>
            /\ wr[c] = <<>>
            /\ rd[c] = <<>>
            /\ pc[c] = "idle"
            /\ out[c].status = "returned"

\* C4 witness: set_position() has returned while a frame written earlier and
\* a pending line show that the transport was there to be used.
C4_Witness ==
    /\ SetPositionDone("c1")
    /\ cur["c1"].tilt = <<>>
    /\ cur["c1"].rot = <<>>
    /\ out["c1"].status = "returned"
    /\ Len(written) >= 1
    /\ Len(inq) >= 1

\* C5: every frame set_position writes is <op>,<v>; with the operation code
\* of its axis and of the mode the relative flag selects, the same mode for
\* both frames of a two-axis call.
C5_FrameFormat ==
    \A c \in Callers : cur[c].op = "set_position" =>
        LET t == cur[c].tilt
            r == cur[c].rot
            rel == cur[c].relative
        IN /\ Len(wr[c]) <= 2
           /\ Len(wr[c]) = 2 =>
                  /\ Provided(t)
                  /\ Provided(r)
                  /\ wr[c] = <<WireFrame("tilt", t[1], rel), WireFrame("rot", r[1], rel)>>
           /\ Len(wr[c]) = 1 =>
                  \/ Provided(t) /\ wr[c][1] = WireFrame("tilt", t[1], rel)
                  \/ Provided(r) /\ wr[c][1] = WireFrame("rot", r[1], rel)

\* C5 witness: set_position(tilt=5, rot=-2, relative=True) has written
\* "GTR,5;" then "GRR,-2;".
C5_Witness ==
    /\ SetPositionDone("c1")
    /\ cur["c1"].relative
    /\ wr["c1"] = << <<"G", "T", "R", ",", "5", ";">>,
                    <<"G", "R", "R", ",", "-", "2", ";">> >>

\* C6: set_position never reads a line from the transport and never waits
\* for a response.
C6_FireAndForget ==
    \A c \in Callers : cur[c].op = "set_position" =>
        /\ rd[c] = <<>>
        /\ pc[c] # "read"
        /\ out[c].res = <<>>

\* C6 witness: a two-frame set_position has returned and left a pending line
\* on the transport.
C6_Witness ==
    /\ SetPositionDone("c1")
    /\ Len(wr["c1"]) = 2
    /\ Len(inq) >= 1

\* C7: in a blocking dispatch every line read that does not contain the
\* required prefix (the empty line of an expired wait included) is discarded
\* and the wait goes on; the dispatch returns the first line read that
\* contains the prefix.
C7_FirstMatchingLineWins ==
    \A c \in Callers : Blocking(c) =>
        /\ pc[c] = "read" =>
               \A i \in 1..Len(rd[c]) : ~Contains(cur[c].pat[1], rd[c][i].text)
        /\ pc[c] = "idle" =>
               /\ rd[c] # <<>>
               /\ out[c].res = Last(rd[c]).text
               /\ Contains(cur[c].pat[1], out[c].res)
               /\ \A i \in 1..(Len(rd[c]) - 1) : ~Contains(cur[c].pat[1], rd[c][i].text)

\* C7 witness: a blocking dispatch has discarded the empty line of an expired
\* wait and a line without the prefix, and returned the line after them.
C7_Witness ==
    /\ Blocking("c1")
    /\ pc["c1"] = "idle"
    /\ Len(rd["c1"]) = 3
    /\ \E i \in 1..2 : rd["c1"][i].text = <<>>
    /\ \E i \in 1..2 : rd["c1"][i].text = <<"E", "R", "R">>
    /\ out["c1"].res = rd["c1"][3].text

\* C8: a get_position or _get_state call writes exactly its one frame, and a
\* completed one has consumed exactly one line with the prefix, the last line
\* it read, which is the answer to its own request.
C8_OneResponsePerRequest ==
    \A c \in Callers : cur[c].op \in {"get_position", "_get_state"} =>
        /\ wr[c] = <<IF cur[c].op = "get_position" THEN <<"R", "P", ";">>
                                                  ELSE <<"R", "S", ";">> >>
        /\ written[req[c]] = wr[c][1]
        /\ \A i \in 1..Len(rd[c]) :
               Contains(cur[c].pat[1], rd[c][i].text) => (i = Len(rd[c]) /\ pc[c] = "idle")
        /\ pc[c] = "idle" =>
               /\ rd[c] # <<>>
               /\ Contains(cur[c].pat[1], Last(rd[c]).text)
               /\ Last(rd[c]).for = req[c]
               /\ out[c].res = Last(rd[c]).text

\* C8 witness: the second request in a row has completed with the answer to
\* the second frame, after discarding an unsolicited line.
C8_Witness ==
    /\ cur["c1"].op = "_get_state"
    /\ pc["c1"] = "idle"
    /\ written = << <<"R", "P", ";">>, <<"R", "S", ";">> >>
    /\ Len(rd["c1"]) >= 2
    /\ Last(rd["c1"]).for = 2

\* C9 (as claimed): no frame is written while a blocking request waits for
\* its response, and a caller only reads unsolicited lines and the answer to
\* its own request.
C9_Serialized ==
    \A c \in Callers :
        /\ pc[c] = "read" => Len(written) = req[c]
        /\ Blocking(c) => \A i \in 1..Len(rd[c]) : rd[c][i].for \in {0, req[c]}

\* C10: a dispatch of a frame with fb_required and no response pattern (None
\* or the empty string) raises MissingResponsePattern and has read nothing.
C10_MissingPatternBeforeRead ==
    \A c \in Callers :
        (/\ cur[c].op # "none"
         /\ cur[c].fb
         /\ (cur[c].pat = <<>> \/ cur[c].pat = << <<>> >>)
         /\ EndsWith(cur[c].cmd, <<";">>)) =>
            /\ pc[c] = "idle"
            /\ out[c].status = "raised"
            /\ out[c].err = "MissingResponsePattern"
            /\ rd[c] = <<>>

\* C10 witness: _send_command("RP;", fb_required=True, res_pattern="") has
\* raised while a line was pending on the transport.
C10_Witness ==
    /\ cur["c1"].op = "_send_command"
    /\ cur["c1"].fb
    /\ cur["c1"].pat = << <<>> >>
    /\ out["c1"].err = "MissingResponsePattern"
    /\ Len(inq) >= 1

\* C11 (as claimed): however often close_connexion is called, the underlying
\* transport is released at most once.
C11_ReleasedOnce == closes <= 1

Done(c, op) == cur[c].op = op /\ pc[c] = "idle"

\* C12 (as claimed): get_position on the response line "POS:12.5,-3.25;"
\* returns tilt 12.5 and rotation -3.25 (in hundredths: 1250 and -325).
C12_DecodesTerminatedPosition ==
    \A c \in Callers :
        (/\ Done(c, "get_position")
         /\ out[c].res = <<"P", "O", "S", ":", "1", "2", ".", "5", ",",
                           "-", "3", ".", "2", "5", ";">>) =>
            /\ out[c].status = "returned"
            /\ out[c].pos = <<1250, 0 - 325>>

\* C13 (as claimed): _get_state on the response line "STATE:<n>;" returns
\* IDLE for 0, MOVING for 1 and ERROR for -1 and 7, without raising.
C13_DecodesTerminatedState ==
    \A c \in Callers : \A n \in {0, 1, 0 - 1, 7} :
        (/\ Done(c, "_get_state")
         /\ out[c].res = <<"S", "T", "A", "T", "E", ":">> \o Str(n) \o <<";">>) =>
            /\ out[c].status = "returned"
            /\ out[c].state = (IF n = 0 THEN "IDLE" ELSE IF n = 1 THEN "MOVING" ELSE "ERROR")

\* C14: the state mapping is total and fail-safe: a response that carries the
\* integer code n yields IDLE iff n = 0, MOVING iff n = 1 and ERROR for every
\* other n, without raising; what _get_state returns is one of these three.
C14_StateMappingTotal ==
    \A c \in Callers : Done(c, "_get_state") =>
        /\ \A n \in (0 - 2)..9 :
               out[c].res = <<"S", "T", "A", "T", "E", ":">> \o Str(n) =>
                   /\ out[c].status = "returned"
                   /\ (out[c].state = "IDLE") <=> (n = 0)
                   /\ (out[c].state = "MOVING") <=> (n = 1)
                   /\ (out[c].state = "ERROR") <=> (n # 0 /\ n # 1)
        /\ out[c].status = "returned" => out[c].state \in {"IDLE", "MOVING", "ERROR"}

\* C14 witness: the out-of-range code 7 has been mapped to ERROR.
C14_Witness ==
    /\ Done("c1", "_get_state")
    /\ out["c1"].res = <<"S", "T", "A", "T", "E", ":", "7">>
    /\ out["c1"].status = "returned"
    /\ out["c1"].state = "ERROR"

\* C15 (as claimed): a position response whose payload after "POS:" is not
\* exactly two comma-separated fields makes get_position raise, and yields no
\* position.
C15_RejectsWrongFieldCount ==
    \A c \in Callers :
        (/\ Done(c, "get_position")
         /\ Len(out[c].res) >= 4
         /\ SubSeq(out[c].res, 1, 4) = <<"P", "O", "S", ":">>
         /\ Len(Split(SubSeq(out[c].res, 5, Len(out[c].res)), ",")) # 2) =>
            /\ out[c].status = "raised"
            /\ out[c].pos = <<>>

\* C16 (as claimed): every call of a controller-gain operation raises
\* NotImplemented and performs no write and no read.
C16_GainsNotImplemented ==
    \A c \in Callers :
        cur[c].op \in {"_get_controller_parameters", "_set_controller_parameters"} =>
            /\ out[c].status = "raised"
            /\ out[c].err = "NotImplemented"
            /\ wr[c] = <<>>
            /\ rd[c] = <<>>

\* C17 (as claimed): the line a blocking dispatch returns starts with the
\* required prefix.
C17_ReturnedLineStartsWithPrefix ==
    \A c \in Callers : (Blocking(c) /\ pc[c] = "idle") =>
        /\ Len(out[c].res) >= Len(cur[c].pat[1])
        /\ SubSeq(out[c].res, 1, Len(cur[c].pat[1])) = cur[c].pat[1]

\* C18: the response wait has no overall deadline: a waiting dispatch raises
\* nothing, it leaves the wait exactly when it reads a line that contains the
\* required prefix (an expired wait or any other line keeps it waiting), and
\* with a firmware that answers it eventually returns.
C18_NoOverallDeadline ==
    /\ [](\A c \in Callers : pc[c] = "read" => out[c].status = "running")
    /\ [][\A c \in Callers : pc[c] = "read" =>
              ((pc'[c] = "idle") <=>
                   (rd'[c] # rd[c] /\ Contains(cur[c].pat[1], Last(rd'[c]).text)))]_vars
    /\ \A c \in Callers : (pc[c] = "read") ~> (pc[c] = "idle")

\* C18 witness: a dispatch is still waiting after three expired waits.
C18_Witness ==
    /\ pc["c1"] = "read"
    /\ Len(rd["c1"]) >= 3
    /\ \A i \in 1..Len(rd["c1"]) : rd["c1"][i].text = <<>>
    /\ out["c1"].status = "running"

\* the step in which caller c starts an operation
Started(c) ==
    /\ pc[c] = "idle"
    /\ nCalls' = nCalls + 1
    /\ \A d \in Callers \ {c} : cur'[d] = cur[d] /\ pc'[d] = pc[d]

\* C19: a call of _send_command with a command that does not end with ';'
\* raises MalformedCommand and leaves the transport as it was: nothing is
\* written and nothing is read.
C19_MalformedRejectedBeforeIO ==
    [][\A c \in Callers :
          (/\ Started(c)
           /\ cur'[c].op = "_send_command"
           /\ ~EndsWith(cur'[c].cmd, <<";">>)) =>
              /\ written' = written
              /\ inq' = inq
              /\ wr'[c] = <<>>
              /\ rd'[c] = <<>>
              /\ pc'[c] = "idle"
              /\ out'[c].status = "raised"
              /\ out'[c].err = "MalformedCommand"]_vars

\* C19 witness: _send_command("") has been rejected while a frame written
\* earlier and a pending line were on the transport.
C19_Witness ==
    /\ cur["c1"].op = "_send_command"
    /\ cur["c1"].cmd = <<>>
    /\ out["c1"].err = "MalformedCommand"
    /\ wr["c1"] = <<>>
    /\ Len(written) >= 1
    /\ Len(inq) >= 1

\* C20: a call of _send_command with a frame, fb_required and no response
\* pattern raises MissingResponsePattern after it has written the frame
\* exactly once, and consumes no line.
C20_MissingPatternAfterWrite ==
    [][\A c \in Callers :
          (/\ Started(c)
           /\ cur'[c].op = "_send_command"
           /\ EndsWith(cur'[c].cmd, <<";">>)
           /\ cur'[c].fb
           /\ (cur'[c].pat = <<>> \/ cur'[c].pat = << <<>> >>)) =>
              /\ written' = Append(written, cur'[c].cmd)
              /\ wr'[c] = <<cur'[c].cmd>>
              /\ inq' = inq
              /\ rd'[c] = <<>>
              /\ pc'[c] = "idle"
              /\ out'[c].status = "raised"
              /\ out'[c].err = "MissingResponsePattern"]_vars

\* C20 witness: the call has raised, the firmware has received the frame and
\* answered it, and the answer is left pending on the transport.
C20_Witness ==
    /\ out["c1"].err = "MissingResponsePattern"
    /\ cur["c1"].cmd = <<"R", "P", ";">>
    /\ written = << <<"R", "P", ";">> >>
    /\ devPos = 1
    /\ Len(inq) = 1
    /\ inq[1].for = 1

====
